---- MODULE Spec2Model ----
(***************************************************************************)
(* Model of customtkinter/windows/ctk_tk.py: the CTk top-level window.     *)
(* Logical window dimensions, scaling callbacks and their deferred timers, *)
(* the Windows titlebar-colour sequence and the window lifecycle flags.    *)
(*                                                                         *)
(* A window scaling factor is a rational <<numerator, denominator>>; every *)
(* factor used is a dyadic rational, so Python's float arithmetic on it is *)
(* exact and int() / round() are modelled exactly.                         *)
(* Strings are sequences of one-character strings.                         *)
(***************************************************************************)
EXTENDS Integers, Sequences, FiniteSets, TLC

(* ------------------------------ bounds -------------------------------- *)

\* scaling factors <<numerator, denominator>> the ScalingTracker may report
\* after construction: 1.25 and 2.0 (the window is constructed at 1.0)
Scalings == {<<5, 4>>, <<2, 1>>}

\* at most this many _set_scaling calls may have callbacks outstanding
MaxPendingScalings == 2

\* arguments of minsize() / maxsize()
SizeArgs == {<<200, 200>>, <<700, 700>>}

\* physical sizes winfo_width()/winfo_height() may report on <Configure>
DetectedSizes == {<<249, 627>>}

\* arguments of geometry(): "100x900", "ab"
GeometryStrings ==
    { <<"1", "0", "0", "x", "9", "0", "0">>,
      <<"a", "b">> }

\* scaling factors the window may be constructed at, in the specification
\* of geometry(): 0.25, 0.5, 0.75, 1.0, 1.25, 2.0
GeometryScalings == {<<1, 4>>, <<1, 2>>, <<3, 4>>, <<1, 1>>, <<5, 4>>, <<2, 1>>}

\* arguments of geometry() in that specification: positions "+10+5",
\* "-10-5", "+10-5", sizes "2x6", "7x3", "30x45", both "30x45+5+7", and
\* the unparseable "ab", "x7"
GeometryInputs ==
    { <<"+", "1", "0", "+", "5">>,
      <<"-", "1", "0", "-", "5">>,
      <<"+", "1", "0", "-", "5">>,
      <<"2", "x", "6">>,
      <<"7", "x", "3">>,
      <<"3", "0", "x", "4", "5">>,
      <<"3", "0", "x", "4", "5", "+", "5", "+", "7">>,
      <<"a", "b">>,
      <<"x", "7">> }

\* arguments of resizable()
ResizableArgs == {<<FALSE, TRUE>>}

\* values of fg_color: a single colour or a (light, dark) pair
FgColors == {<<"gray92", "gray14">>, <<"#222222">>}

\* mode strings the AppearanceModeTracker passes to its callbacks
ModeStrings == {"Light", "Dark"}

\* arguments of tkinter's state()
TkStates == {"normal", "iconic", "zoomed", "withdrawn"}

\* what the native titlebar call does: the first attribute identifier is
\* accepted ("ok"), it is rejected and the legacy one is accepted ("legacy")
\* or rejected too ("rejected"), the handle lookup raises ("raises") or the
\* attribute call raises ("raises_attribute")
NativeOutcomes == {"ok", "legacy", "rejected", "raises", "raises_attribute"}

\* the outcomes in which the titlebar colour is not set
NativeFailures == {"rejected", "raises", "raises_attribute"}

(* --------------------------- numeric helpers --------------------------- *)

Abs(n) == IF n < 0 THEN -n ELSE n

\* Python int(n / d) for an exact rational n / d, d > 0: truncation toward 0
TruncDiv(n, d) == IF n >= 0 THEN n \div d ELSE -((-n) \div d)

RoundDiv_Floor(n, d) == n \div d

\* Python round(n / d) for an exact rational n / d, d > 0: ties to even
RoundHalfEvenNat(n, d) ==
    LET fl == n \div d
        r  == n % d
    IN  IF 2 * r < d THEN fl
        ELSE IF 2 * r > d THEN fl + 1
        ELSE IF fl % 2 = 0 THEN fl ELSE fl + 1

RoundDiv(n, d) == IF n >= 0 THEN RoundHalfEvenNat(n, d) ELSE -RoundHalfEvenNat(-n, d)

(* --------------------------- string helpers ---------------------------- *)

Digits == <<"0", "1", "2", "3", "4", "5", "6", "7", "8", "9">>

IsDigit(c) == \E i \in 1..10 : Digits[i] = c

DigitVal(c) == (CHOOSE i \in 1..10 : Digits[i] = c) - 1

RECURSIVE NatToStr(_)
NatToStr(n) == IF n < 10 THEN <<Digits[n + 1]>>
               ELSE Append(NatToStr(n \div 10), Digits[(n % 10) + 1])

\* Python f"{n}" for an int
IntToStr(n) == IF n < 0 THEN <<"-">> \o NatToStr(-n) ELSE NatToStr(n)

RECURSIVE StrToNat(_)
StrToNat(s) == IF s = <<>> THEN 0
               ELSE 10 * StrToNat(SubSeq(s, 1, Len(s) - 1)) + DigitVal(s[Len(s)])

CharAt(s, i) == IF i >= 1 /\ i <= Len(s) THEN s[i] ELSE ""

\* length of the maximal run of digits of s starting at index i
RECURSIVE DigitRun(_, _)
DigitRun(s, i) == IF i <= Len(s) /\ IsDigit(s[i]) THEN 1 + DigitRun(s, i + 1) ELSE 0

(* ---------------------- _parse_geometry_string ------------------------- *)

\* group 1 of the regex, ((\d+)x(\d+)){0,1}, tried at index 1 (re.search
\* always matches at index 1 because every part of the regex is optional);
\* n1 and n2 are the lengths of the two digit runs
SizeMatchRuns(s, n1, n2) ==
    IF n1 >= 1 /\ CharAt(s, n1 + 1) = "x" /\ n2 >= 1
    THEN [ok |-> TRUE, n1 |-> n1, n2 |-> n2, next |-> n1 + n2 + 2]
    ELSE [ok |-> FALSE, n1 |-> 0, n2 |-> 0, next |-> 1]

SizeMatchFrom(s, n1) == SizeMatchRuns(s, n1, DigitRun(s, n1 + 2))

SizeMatch(s) == SizeMatchFrom(s, DigitRun(s, 1))

\* group 4, (\+{0,1}([+-]{0,1}\d+)\+{0,1}([+-]{0,1}\d+)){0,1}, tried at p:
\* a, b, c, d say whether each optional sign is consumed, k1, k2 are the
\* lengths of the two digit runs
PosValid(s, p, a, b, k1, c, d, k2) ==
    /\ (a = 1 => CharAt(s, p) = "+")
    /\ (b = 1 => CharAt(s, p + a) \in {"+", "-"})
    /\ k1 >= 1 /\ k1 <= DigitRun(s, p + a + b)
    /\ (c = 1 => CharAt(s, p + a + b + k1) = "+")
    /\ (d = 1 => CharAt(s, p + a + b + k1 + c) \in {"+", "-"})
    /\ k2 >= 1 /\ k2 <= DigitRun(s, p + a + b + k1 + c + d)

\* the last \d+ is greedy and nothing follows it, so only its maximal run
\* can be the first match found
PosCandidatesAt(s, p, a, b, k1) ==
    { t \in { <<a, b, k1, cd[1], cd[2], DigitRun(s, p + a + b + k1 + cd[1] + cd[2])>> :
                cd \in {0, 1} \X {0, 1} } :
        PosValid(s, p, t[1], t[2], t[3], t[4], t[5], t[6]) }

PosCandidates(s, p) ==
    UNION { UNION { PosCandidatesAt(s, p, ab[1], ab[2], k1) :
                    k1 \in 1..DigitRun(s, p + ab[1] + ab[2]) } :
            ab \in {0, 1} \X {0, 1} }

\* the backtracking matcher is greedy: it returns the first complete match
\* in priority order, i.e. the lexicographically greatest valid choice
PosRank(B, t) ==
    ((((t[1] * B + t[2]) * B + t[3]) * B + t[4]) * B + t[5]) * B + t[6]

PosBest(s, cands) ==
    IF cands = {} THEN <<>>
    ELSE CHOOSE u \in cands :
            \A v \in cands : PosRank(Len(s) + 2, v) <= PosRank(Len(s) + 2, u)

\* int() of a group ([+-]{0,1}\d+) that starts at index q: sign says
\* whether a sign character is part of it, k is the number of digits
SignedInt(s, q, sign, k) ==
    IF sign = 1 /\ CharAt(s, q) = "-"
    THEN -StrToNat(SubSeq(s, q + sign, q + sign + k - 1))
    ELSE StrToNat(SubSeq(s, q + sign, q + sign + k - 1))

PosFields(s, p, t) ==
    IF t = <<>> THEN [ok |-> FALSE, x |-> 0, y |-> 0]
    ELSE [ok |-> TRUE,
          x |-> SignedInt(s, p + t[1], t[2], t[3]),
          y |-> SignedInt(s, p + t[1] + t[2] + t[3] + t[4], t[5], t[6])]

PosMatch(s, p) == PosFields(s, p, PosBest(s, PosCandidates(s, p)))

\* an absent field (Python None) is 0 with its has-flag FALSE
ParseFields(s, sz, pos) ==
    [hasSize |-> sz.ok,
     width  |-> IF sz.ok THEN StrToNat(SubSeq(s, 1, sz.n1)) ELSE 0,
     height |-> IF sz.ok THEN StrToNat(SubSeq(s, sz.n1 + 2, sz.n1 + 1 + sz.n2)) ELSE 0,
     hasPos |-> pos.ok,
     x |-> pos.x,
     y |-> pos.y]

ParseWithSize(s, sz) == ParseFields(s, sz, PosMatch(s, sz.next))

ParseGeometryString(s) == ParseWithSize(s, SizeMatch(s))

(* ------------------------------- state --------------------------------- *)

VARIABLES
    current_width, current_height,      \* logical size, never scaled
    min_width, min_height,              \* logical bounds
    max_width, max_height,
    window_scaling,                     \* <<numerator, denominator>>
    block_update_dimensions_event,      \* suppression flag of <Configure>
    timers,                             \* pending after() callbacks, by due time
    tk_minsize, tk_maxsize,             \* last physical bounds given to tkinter.Tk
    tk_geometry,                        \* last geometry string given to tkinter.Tk
    window_exists,                      \* shown through update() or mainloop()
    withdraw_called_before_window_exists,
    iconify_called_before_window_exists,
    state_before_windows_set_titlebar_color,
    last_resizable_args,
    appearance_mode,                    \* 0: "Light", 1: "Dark"
    fg_color,
    tk_state,                           \* tkinter's wm state of the window
    tk_bg,                              \* last bg given to tkinter.Tk.configure
    platform_win,                       \* sys.platform.startswith("win")
    deactivate_windows_window_header_manipulation,
    appearance_registered,              \* callback held by AppearanceModeTracker
    scaling_registered,                 \* callback held by ScalingTracker
    destroyed,                          \* tkinter.Tk.destroy() has run
    hide_requested,                     \* withdraw()/iconify() was called on the
                                        \* window before it was realized
    lastOp,                             \* the operation that produced this state
    calls                               \* what that operation did, in order

sizeVars == <<current_width, current_height, min_width, min_height,
              max_width, max_height, window_scaling,
              block_update_dimensions_event, timers,
              tk_minsize, tk_maxsize, tk_geometry>>

lifeVars == <<window_exists, withdraw_called_before_window_exists,
              iconify_called_before_window_exists,
              state_before_windows_set_titlebar_color, last_resizable_args,
              appearance_mode, fg_color, tk_state, tk_bg, platform_win,
              deactivate_windows_window_header_manipulation,
              appearance_registered, scaling_registered, destroyed,
              hide_requested>>

vars == <<sizeVars, lifeVars, lastOp, calls>>

NoStr == <<>>

Op(name, w, h, s, raised) == [name |-> name, w |-> w, h |-> h, s |-> s, raised |-> raised]

Call(f, w, h, s) == [f |-> f, w |-> w, h |-> h, s |-> s]

Unset == [set |-> FALSE, w |-> 0, h |-> 0]

Given(w, h) == [set |-> TRUE, w |-> w, h |-> h]

Max2(a, b) == IF a >= b THEN a ELSE b

Min2(a, b) == IF a <= b THEN a ELSE b

(* ------------------------- scaling transforms -------------------------- *)

\* int(value * self._window_scaling)
ApplyWindowScaling(value, sc) == TruncDiv(value * sc[1], sc[2])

\* _apply_geometry_scaling raises TypeError (round(None * ...)) when the
\* parser finds neither a size nor a position
ParsedRaises(g) == ~g.hasSize /\ ~g.hasPos

GeometryRaises(s) == ParsedRaises(ParseGeometryString(s))

SizeStr(w, h) == IntToStr(w) \o <<"x">> \o IntToStr(h)

PosStr(x, y) == <<"+">> \o IntToStr(x) \o <<"+">> \o IntToStr(y)

\* the three return statements of _apply_geometry_scaling, g the parsed string
ScaleParsed(g, sc) ==
    IF ~g.hasPos
    THEN SizeStr(RoundDiv(g.width * sc[1], sc[2]), RoundDiv(g.height * sc[1], sc[2]))
    ELSE IF ~g.hasSize THEN PosStr(g.x, g.y)
    ELSE SizeStr(RoundDiv(g.width * sc[1], sc[2]), RoundDiv(g.height * sc[1], sc[2]))
         \o PosStr(g.x, g.y)

ApplyGeometryScaling(s, sc) == ScaleParsed(ParseGeometryString(s), sc)

UnscaleParsed_Multiplies(g, sc) == ScaleParsed(g, sc)

\* the three return statements of _reverse_geometry_scaling, g the parsed
\* string: round(width / scaling), round(height / scaling)
UnscaleParsed(g, sc) ==
    IF ~g.hasPos
    THEN SizeStr(RoundDiv(g.width * sc[2], sc[1]), RoundDiv(g.height * sc[2], sc[1]))
    ELSE IF ~g.hasSize THEN PosStr(g.x, g.y)
    ELSE SizeStr(RoundDiv(g.width * sc[2], sc[1]), RoundDiv(g.height * sc[2], sc[1]))
         \o PosStr(g.x, g.y)

ReverseGeometryScaling(s, sc) == UnscaleParsed(ParseGeometryString(s), sc)

(* ------------------------------- timers -------------------------------- *)

\* delays of the two after() calls of _set_scaling, in milliseconds
MinMaxDelay == 400

ReleaseDelay == 100

\* granularity of the model's clock: the greatest common divisor of the delays
TickMs == ReleaseDelay

\* tkinter keeps timer handlers sorted by due time, equal times in creation order
RECURSIVE After(_, _, _)
After(q, ms, cb) ==
    IF q = <<>> \/ Head(q).due > ms
    THEN <<[cb |-> cb, due |-> ms]>> \o q
    ELSE <<Head(q)>> \o After(Tail(q), ms, cb)

(* -------------------------------- Init --------------------------------- *)

\* the size attributes after __init__ of a window whose scaling is sc
InitSizeAt(sc) ==
    /\ current_width = 600
    /\ current_height = 500
    /\ min_width = 0
    /\ min_height = 0
    /\ max_width = 1000000
    /\ max_height = 1000000
    /\ window_scaling = sc
    /\ block_update_dimensions_event = FALSE
    /\ timers = <<>>
    /\ tk_minsize = Unset
    /\ tk_maxsize = Unset
    /\ tk_geometry = ApplyGeometryScaling(SizeStr(600, 500), sc)

InitSize == InitSizeAt(<<1, 1>>)

\* ThemeManager.single_color: a (light, dark) pair is indexed by the mode
SingleColor(color, mode) == IF Len(color) = 2 THEN color[mode + 1] ELSE color[1]

\* the callback registries of AppearanceModeTracker and ScalingTracker:
\* subscribing makes the tracker hold the callback, unsubscribing makes it
\* drop it, and a notification is delivered only to a callback it holds
Subscribe(held) == TRUE

Unsubscribe(held) == FALSE

Delivers(held) == held

\* the window manipulates the native titlebar
NativeTitlebar == platform_win /\ ~deactivate_windows_window_header_manipulation

InitLife ==
    /\ platform_win \in BOOLEAN
    /\ deactivate_windows_window_header_manipulation \in BOOLEAN
    /\ appearance_mode \in {0, 1}
    /\ fg_color \in FgColors
    /\ tk_bg = SingleColor(fg_color, appearance_mode)
    /\ window_exists = FALSE
    /\ withdraw_called_before_window_exists = FALSE
    /\ iconify_called_before_window_exists = FALSE
    /\ state_before_windows_set_titlebar_color = "None"
    /\ last_resizable_args = [set |-> FALSE, width |-> FALSE, height |-> FALSE]
       \* __init__ ends with _windows_set_titlebar_color on a window that
       \* does not exist yet: super().withdraw(); super().update()
    /\ tk_state = IF NativeTitlebar THEN "withdrawn" ELSE "normal"
    /\ appearance_registered = Subscribe(FALSE)
    /\ scaling_registered = Subscribe(FALSE)
    /\ destroyed = FALSE
    /\ hide_requested = FALSE

Init ==
    /\ InitSize
    /\ InitLife
    /\ lastOp = Op("__init__", 0, 0, NoStr, FALSE)
    /\ calls = <<>>

(* --------------------------- size operations --------------------------- *)

Minsize_KeepsCurrent(width, height) ==
    /\ ~destroyed
    /\ UNCHANGED lifeVars
    /\ min_width' = width
    /\ min_height' = height
    /\ tk_minsize' = Given(ApplyWindowScaling(width, window_scaling),
                           ApplyWindowScaling(height, window_scaling))
    /\ calls' = <<Call("minsize", tk_minsize'.w, tk_minsize'.h, NoStr)>>
    /\ lastOp' = Op("minsize", width, height, NoStr, FALSE)
    /\ UNCHANGED <<current_width, current_height, max_width, max_height,
                   window_scaling, block_update_dimensions_event, timers,
                   tk_maxsize, tk_geometry>>

Minsize(width, height) ==
    /\ ~destroyed
    /\ UNCHANGED lifeVars
    /\ min_width' = width
    /\ min_height' = height
    /\ current_width' = IF current_width < width THEN width ELSE current_width
    /\ current_height' = IF current_height < height THEN height ELSE current_height
    /\ tk_minsize' = Given(ApplyWindowScaling(width, window_scaling),
                           ApplyWindowScaling(height, window_scaling))
    /\ calls' = <<Call("minsize", tk_minsize'.w, tk_minsize'.h, NoStr)>>
    /\ lastOp' = Op("minsize", width, height, NoStr, FALSE)
    /\ UNCHANGED <<max_width, max_height, window_scaling,
                   block_update_dimensions_event, timers, tk_maxsize, tk_geometry>>

Maxsize(width, height) ==
    /\ ~destroyed
    /\ UNCHANGED lifeVars
    /\ max_width' = width
    /\ max_height' = height
    /\ current_width' = IF current_width > width THEN width ELSE current_width
    /\ current_height' = IF current_height > height THEN height ELSE current_height
    /\ tk_maxsize' = Given(ApplyWindowScaling(width, window_scaling),
                           ApplyWindowScaling(height, window_scaling))
    /\ calls' = <<Call("maxsize", tk_maxsize'.w, tk_maxsize'.h, NoStr)>>
    /\ lastOp' = Op("maxsize", width, height, NoStr, FALSE)
    /\ UNCHANGED <<min_width, min_height, window_scaling,
                   block_update_dimensions_event, timers, tk_minsize, tk_geometry>>

\* geometry(geometry_string) with a string argument; scaled is the string
\* _apply_geometry_scaling returns and g what _parse_geometry_string returns
GeometryParsed(s, scaled, g) ==
    /\ ~destroyed
    /\ UNCHANGED lifeVars
    /\ IF ParsedRaises(g)
       THEN /\ lastOp' = Op("geometry", 0, 0, s, TRUE)
            /\ calls' = <<>>
            /\ UNCHANGED sizeVars
       ELSE /\ tk_geometry' = scaled
            /\ calls' = <<Call("geometry", 0, 0, scaled)>>
            /\ current_width' = IF g.hasSize
                                THEN Max2(min_width, Min2(g.width, max_width))
                                ELSE current_width
            /\ current_height' = IF g.hasSize
                                 THEN Max2(min_height, Min2(g.height, max_height))
                                 ELSE current_height
            /\ lastOp' = Op("geometry", 0, 0, s, FALSE)
            /\ UNCHANGED <<min_width, min_height, max_width, max_height,
                           window_scaling, block_update_dimensions_event,
                           timers, tk_minsize, tk_maxsize>>

Geometry(s) ==
    GeometryParsed(s, ApplyGeometryScaling(s, window_scaling), ParseGeometryString(s))

\* geometry() without an argument; returned is what _reverse_geometry_scaling
\* returns for the string tkinter holds, g that string parsed
GeometryGetParsed(g, returned) ==
    /\ ~destroyed
    /\ UNCHANGED lifeVars
    /\ UNCHANGED sizeVars
    /\ calls' = <<Call("super.geometry", 0, 0, tk_geometry),
                  Call("return", 0, 0, returned)>>
    /\ lastOp' = Op("geometry()", 0, 0, NoStr, ParsedRaises(g))

\* tkinter returns the geometry it was last given
GeometryGetOf(g) ==
    GeometryGetParsed(g, IF ParsedRaises(g) THEN NoStr
                         ELSE UnscaleParsed(g, window_scaling))

GeometryGet == GeometryGetOf(ParseGeometryString(tk_geometry))

\* <Configure> handler; winfo_width() / winfo_height() return dw, dh
UpdateDimensionsEvent(dw, dh) ==
    /\ ~destroyed
    /\ UNCHANGED lifeVars
    /\ lastOp' = Op("_update_dimensions_event", dw, dh, NoStr, FALSE)
    /\ IF ~block_update_dimensions_event
       THEN /\ current_width' = RoundDiv(dw * window_scaling[2], window_scaling[1])
            /\ current_height' = RoundDiv(dh * window_scaling[2], window_scaling[1])
            /\ calls' = <<Call("update_idletasks", 0, 0, NoStr)>>
       ELSE /\ UNCHANGED <<current_width, current_height>>
            /\ calls' = <<>>
    /\ UNCHANGED <<min_width, min_height, max_width, max_height, window_scaling,
                   block_update_dimensions_event, timers,
                   tk_minsize, tk_maxsize, tk_geometry>>

\* <Configure> after tkinter resized the window to the size it was last
\* given through geometry(); g is that geometry string parsed
UpdateDimensionsEchoOf(g) ==
    /\ g.hasSize
    /\ UpdateDimensionsEvent(g.width, g.height)

UpdateDimensionsEcho == UpdateDimensionsEchoOf(ParseGeometryString(tk_geometry))

ForcedSize_FromMinBounds(sc) ==
    <<ApplyWindowScaling(min_width, sc), ApplyWindowScaling(min_height, sc)>>

\* the physical size _set_scaling forces through minsize, maxsize and geometry
ForcedSize(sc) ==
    <<ApplyWindowScaling(current_width, sc), ApplyWindowScaling(current_height, sc)>>

SetScaling_StoresScaledSize(new_window_scaling) ==
    LET pw == ForcedSize(new_window_scaling)[1]
        ph == ForcedSize(new_window_scaling)[2]
    IN  /\ Delivers(scaling_registered)
        /\ Len(timers) + 2 <= 2 * MaxPendingScalings
        /\ UNCHANGED lifeVars
        /\ window_scaling' = new_window_scaling
        /\ block_update_dimensions_event' = TRUE
        /\ current_width' = pw
        /\ current_height' = ph
        /\ tk_minsize' = Given(pw, ph)
        /\ tk_maxsize' = Given(pw, ph)
        /\ tk_geometry' = SizeStr(pw, ph)
        /\ timers' = After(After(timers, MinMaxDelay, "_set_scaled_min_max"),
                           ReleaseDelay, "set_block_update_dimensions_event_false")
        /\ calls' = <<Call("block_update_dimensions_event=True", 0, 0, NoStr),
                      Call("minsize", pw, ph, NoStr),
                      Call("maxsize", pw, ph, NoStr),
                      Call("geometry", 0, 0, SizeStr(pw, ph))>>
        /\ lastOp' = Op("_set_scaling", new_window_scaling[1], new_window_scaling[2],
                        NoStr, FALSE)
        /\ UNCHANGED <<min_width, min_height, max_width, max_height>>

\* ScalingTracker callback
SetScaling(new_window_scaling) ==
    LET pw == ForcedSize(new_window_scaling)[1]
        ph == ForcedSize(new_window_scaling)[2]
    IN  /\ Delivers(scaling_registered)
        /\ Len(timers) + 2 <= 2 * MaxPendingScalings
        /\ UNCHANGED lifeVars
        /\ window_scaling' = new_window_scaling
        /\ block_update_dimensions_event' = TRUE
        /\ tk_minsize' = Given(pw, ph)
        /\ tk_maxsize' = Given(pw, ph)
        /\ tk_geometry' = SizeStr(pw, ph)
        /\ timers' = After(After(timers, MinMaxDelay, "_set_scaled_min_max"),
                           ReleaseDelay, "set_block_update_dimensions_event_false")
        /\ calls' = <<Call("block_update_dimensions_event=True", 0, 0, NoStr),
                      Call("minsize", pw, ph, NoStr),
                      Call("maxsize", pw, ph, NoStr),
                      Call("geometry", 0, 0, SizeStr(pw, ph))>>
        /\ lastOp' = Op("_set_scaling", new_window_scaling[1], new_window_scaling[2],
                        NoStr, FALSE)
        /\ UNCHANGED <<current_width, current_height, min_width, min_height,
                       max_width, max_height>>

SetScaledMinMax_OnlyMin ==
    /\ tk_minsize' = Given(ApplyWindowScaling(min_width, window_scaling),
                           ApplyWindowScaling(min_height, window_scaling))
    /\ calls' = <<Call("minsize", tk_minsize'.w, tk_minsize'.h, NoStr)>>
    /\ UNCHANGED <<block_update_dimensions_event, tk_maxsize>>

\* the deferred callback of after(400, ...)
SetScaledMinMax ==
    /\ tk_minsize' = Given(ApplyWindowScaling(min_width, window_scaling),
                           ApplyWindowScaling(min_height, window_scaling))
    /\ tk_maxsize' = Given(ApplyWindowScaling(max_width, window_scaling),
                           ApplyWindowScaling(max_height, window_scaling))
    /\ calls' = <<Call("minsize", tk_minsize'.w, tk_minsize'.h, NoStr),
                  Call("maxsize", tk_maxsize'.w, tk_maxsize'.h, NoStr)>>
    /\ UNCHANGED block_update_dimensions_event

SetBlockUpdateDimensionsEventFalse_KeepsFlag ==
    /\ calls' = <<Call("block_update_dimensions_event=False", 0, 0, NoStr)>>
    /\ UNCHANGED <<block_update_dimensions_event, tk_minsize, tk_maxsize>>

\* the deferred callback of after(100, ...)
SetBlockUpdateDimensionsEventFalse ==
    /\ block_update_dimensions_event' = FALSE
    /\ calls' = <<Call("block_update_dimensions_event=False", 0, 0, NoStr)>>
    /\ UNCHANGED <<tk_minsize, tk_maxsize>>

\* the event loop runs the first timer handler once it is due
FireTimer ==
    /\ ~destroyed
    /\ UNCHANGED lifeVars
    /\ timers # <<>>
    /\ Head(timers).due = 0
    /\ timers' = Tail(timers)
    /\ lastOp' = Op(Head(timers).cb, 0, 0, NoStr, FALSE)
    /\ IF Head(timers).cb = "_set_scaled_min_max"
       THEN SetScaledMinMax
       ELSE SetBlockUpdateDimensionsEventFalse
    /\ UNCHANGED <<current_width, current_height, min_width, min_height,
                   max_width, max_height, window_scaling, tk_geometry>>

\* time passes while no timer handler is due
Tick ==
    /\ ~destroyed
    /\ UNCHANGED lifeVars
    /\ timers # <<>>
    /\ Head(timers).due > 0
    /\ timers' = [i \in 1..Len(timers) |-> [timers[i] EXCEPT !.due = @ - TickMs]]
    /\ lastOp' = Op("tick", 0, 0, NoStr, FALSE)
    /\ calls' = <<>>
    /\ UNCHANGED <<current_width, current_height, min_width, min_height,
                   max_width, max_height, window_scaling,
                   block_update_dimensions_event, tk_minsize, tk_maxsize, tk_geometry>>

(* ------------------------ titlebar colour (Windows) -------------------- *)

\* the condition under which the realized window is hidden before the
\* native call:  state != "iconic" or state != "withdrawn"
HideBeforeColorChange(state) == state # "iconic" \/ state # "withdrawn"

RestoreState_AlwaysDeiconify(snapshot) == "normal"

\* the wm state the restore step leaves: deiconify(), iconify(),
\* state("zoomed"), or state(<snapshot>) for any other snapshot
RestoreState(snapshot) ==
    CASE snapshot = "normal" -> "normal"
      [] snapshot = "iconic" -> "iconic"
      [] snapshot = "zoomed" -> "zoomed"
      [] OTHER -> snapshot

RestoreCalls(snapshot) ==
    CASE snapshot = "normal" -> <<Call("deiconify", 0, 0, NoStr)>>
      [] snapshot = "iconic" -> <<Call("iconify", 0, 0, NoStr)>>
      [] snapshot = "zoomed" -> <<Call("state", 0, 0, <<"zoomed">>)>>
      [] OTHER -> <<Call("state", 0, 0, <<snapshot>>)>>

\* value passed to DwmSetWindowAttribute; -1: the function returns early
ColorValue(color_mode) ==
    CASE color_mode = "dark" -> 1
      [] color_mode = "light" -> 0
      [] OTHER -> -1

\* attribute identifiers DWMWA_USE_IMMERSIVE_DARK_MODE and ..._BEFORE_20H1
DWMWA_USE_IMMERSIVE_DARK_MODE == 20

DWMWA_USE_IMMERSIVE_DARK_MODE_BEFORE_20H1 == 19

\* the try block: an exception is caught and printed
NativeCalls(value, native) ==
    CASE native = "ok" ->
           <<Call("GetParent", 0, 0, NoStr),
             Call("DwmSetWindowAttribute", DWMWA_USE_IMMERSIVE_DARK_MODE, value, NoStr)>>
      [] native = "legacy" ->
           <<Call("GetParent", 0, 0, NoStr),
             Call("DwmSetWindowAttribute", DWMWA_USE_IMMERSIVE_DARK_MODE, value, NoStr),
             Call("DwmSetWindowAttribute", DWMWA_USE_IMMERSIVE_DARK_MODE_BEFORE_20H1,
                  value, NoStr)>>
      [] native = "rejected" ->
           <<Call("GetParent", 0, 0, NoStr),
             Call("DwmSetWindowAttribute", DWMWA_USE_IMMERSIVE_DARK_MODE, value, NoStr),
             Call("DwmSetWindowAttribute", DWMWA_USE_IMMERSIVE_DARK_MODE_BEFORE_20H1,
                  value, <<"rejected">>)>>
      [] native = "raises_attribute" ->
           <<Call("GetParent", 0, 0, NoStr),
             Call("DwmSetWindowAttribute", DWMWA_USE_IMMERSIVE_DARK_MODE, value,
                  <<"raises">>),
             Call("print", 0, 0, NoStr)>>
      [] OTHER ->
           <<Call("GetParent", 0, 0, <<"raises">>), Call("print", 0, 0, NoStr)>>

WindowsSetTitlebarColor_FailureSkipsRestore(color_mode, native) ==
    IF ~NativeTitlebar
    THEN [state |-> tk_state, before |-> state_before_windows_set_titlebar_color,
          calls |-> <<>>]
    ELSE LET snapshot == IF window_exists THEN tk_state
                         ELSE state_before_windows_set_titlebar_color
             hide == IF window_exists THEN HideBeforeColorChange(snapshot) ELSE TRUE
             hideCalls == IF window_exists
                          THEN IF hide THEN <<Call("super.withdraw", 0, 0, NoStr)>> ELSE <<>>
                          ELSE <<Call("super.withdraw", 0, 0, NoStr),
                                 Call("super.update", 0, 0, NoStr)>>
             hidden == IF hide THEN "withdrawn" ELSE tk_state
             value == ColorValue(color_mode)
         IN  IF value = -1 \/ native \in NativeFailures
             THEN [state |-> hidden, before |-> snapshot,
                   calls |-> hideCalls \o NativeCalls(value, native)]
             ELSE [state |-> IF window_exists THEN RestoreState(snapshot) ELSE hidden,
                   before |-> snapshot,
                   calls |-> hideCalls \o NativeCalls(value, native)
                             \o (IF window_exists THEN RestoreCalls(snapshot) ELSE <<>>)]

\* _windows_set_titlebar_color: the wm state it leaves, the snapshot it
\* stores and the calls it makes
WindowsSetTitlebarColor(color_mode, native) ==
    IF ~NativeTitlebar
    THEN [state |-> tk_state, before |-> state_before_windows_set_titlebar_color,
          calls |-> <<>>]
    ELSE LET snapshot == IF window_exists THEN tk_state
                         ELSE state_before_windows_set_titlebar_color
             hide == IF window_exists THEN HideBeforeColorChange(snapshot) ELSE TRUE
             hideCalls == IF window_exists
                          THEN IF hide THEN <<Call("super.withdraw", 0, 0, NoStr)>> ELSE <<>>
                          ELSE <<Call("super.withdraw", 0, 0, NoStr),
                                 Call("super.update", 0, 0, NoStr)>>
             hidden == IF hide THEN "withdrawn" ELSE tk_state
             value == ColorValue(color_mode)
         IN  IF value = -1
             THEN [state |-> hidden, before |-> snapshot, calls |-> hideCalls]
             ELSE [state |-> IF window_exists THEN RestoreState(snapshot) ELSE hidden,
                   before |-> snapshot,
                   calls |-> hideCalls \o NativeCalls(value, native)
                             \o (IF window_exists THEN RestoreCalls(snapshot) ELSE <<>>)]

\* "dark" if self._appearance_mode == 1 else "light"
ModeColor(mode) == IF mode = 1 THEN "dark" ELSE "light"

\* mode_string.lower()
Lower(mode_string) ==
    CASE mode_string = "Dark" -> "dark"
      [] mode_string = "Light" -> "light"
      [] OTHER -> mode_string

(* ------------------------ lifecycle operations ------------------------- *)

Withdraw ==
    /\ ~destroyed
    /\ withdraw_called_before_window_exists' =
           IF window_exists = FALSE THEN TRUE ELSE withdraw_called_before_window_exists
    /\ hide_requested' = (hide_requested \/ ~window_exists)
    /\ tk_state' = "withdrawn"
    /\ calls' = <<Call("super.withdraw", 0, 0, NoStr)>>
    /\ lastOp' = Op("withdraw", 0, 0, NoStr, FALSE)
    /\ UNCHANGED <<window_exists, iconify_called_before_window_exists,
                   state_before_windows_set_titlebar_color, last_resizable_args,
                   appearance_mode, fg_color, tk_bg, platform_win,
                   deactivate_windows_window_header_manipulation,
                   appearance_registered, scaling_registered, destroyed>>
    /\ UNCHANGED sizeVars

Iconify ==
    /\ ~destroyed
    /\ iconify_called_before_window_exists' =
           IF window_exists = FALSE THEN TRUE ELSE iconify_called_before_window_exists
    /\ hide_requested' = (hide_requested \/ ~window_exists)
    /\ tk_state' = "iconic"
    /\ calls' = <<Call("super.iconify", 0, 0, NoStr)>>
    /\ lastOp' = Op("iconify", 0, 0, NoStr, FALSE)
    /\ UNCHANGED <<window_exists, withdraw_called_before_window_exists,
                   state_before_windows_set_titlebar_color, last_resizable_args,
                   appearance_mode, fg_color, tk_bg, platform_win,
                   deactivate_windows_window_header_manipulation,
                   appearance_registered, scaling_registered, destroyed>>
    /\ UNCHANGED sizeVars

DeiconifyOnFirstShow_IgnoresIconify ==
    /\ platform_win
    /\ ~withdraw_called_before_window_exists

\* the first update() or mainloop() shows the window on Windows unless the
\* caller hid it
DeiconifyOnFirstShow ==
    /\ platform_win
    /\ ~withdraw_called_before_window_exists
    /\ ~iconify_called_before_window_exists

Realize_DeiconifyEveryTime(name, base) ==
    /\ ~destroyed
    /\ window_exists' = TRUE
    /\ IF DeiconifyOnFirstShow
       THEN /\ tk_state' = "normal"
            /\ calls' = <<Call("deiconify", 0, 0, NoStr), Call(base, 0, 0, NoStr)>>
       ELSE /\ tk_state' = tk_state
            /\ calls' = <<Call(base, 0, 0, NoStr)>>
    /\ lastOp' = Op(name, 0, 0, NoStr, FALSE)
    /\ UNCHANGED <<withdraw_called_before_window_exists,
                   iconify_called_before_window_exists,
                   state_before_windows_set_titlebar_color, last_resizable_args,
                   appearance_mode, fg_color, tk_bg, platform_win,
                   deactivate_windows_window_header_manipulation,
                   appearance_registered, scaling_registered, destroyed,
                   hide_requested>>
    /\ UNCHANGED sizeVars

\* the part update() and mainloop() share; base is the tkinter method called last
Realize(name, base) ==
    /\ ~destroyed
    /\ window_exists' = TRUE
    /\ IF window_exists = FALSE /\ DeiconifyOnFirstShow
       THEN /\ tk_state' = "normal"
            /\ calls' = <<Call("deiconify", 0, 0, NoStr), Call(base, 0, 0, NoStr)>>
       ELSE /\ tk_state' = tk_state
            /\ calls' = <<Call(base, 0, 0, NoStr)>>
    /\ lastOp' = Op(name, 0, 0, NoStr, FALSE)
    /\ UNCHANGED <<withdraw_called_before_window_exists,
                   iconify_called_before_window_exists,
                   state_before_windows_set_titlebar_color, last_resizable_args,
                   appearance_mode, fg_color, tk_bg, platform_win,
                   deactivate_windows_window_header_manipulation,
                   appearance_registered, scaling_registered, destroyed,
                   hide_requested>>
    /\ UNCHANGED sizeVars

Update == Realize("update", "super.update")

Mainloop == Realize("mainloop", "super.mainloop")

\* tkinter's state(newstate), inherited unchanged: the caller or the window
\* manager sets the wm state
State(newstate) ==
    /\ ~destroyed
    /\ tk_state' = newstate
    /\ calls' = <<Call("state", 0, 0, <<newstate>>)>>
    /\ lastOp' = Op("state", 0, 0, <<newstate>>, FALSE)
    /\ UNCHANGED <<window_exists, withdraw_called_before_window_exists,
                   iconify_called_before_window_exists,
                   state_before_windows_set_titlebar_color, last_resizable_args,
                   appearance_mode, fg_color, tk_bg, platform_win,
                   deactivate_windows_window_header_manipulation,
                   appearance_registered, scaling_registered, destroyed,
                   hide_requested>>
    /\ UNCHANGED sizeVars

Resizable_HidesThroughWithdraw(width, height, native) ==
    LET t == IF platform_win
             THEN WindowsSetTitlebarColor(ModeColor(appearance_mode), native)
             ELSE [state |-> tk_state,
                   before |-> state_before_windows_set_titlebar_color, calls |-> <<>>]
    IN  /\ ~destroyed
        /\ last_resizable_args' = [set |-> TRUE, width |-> width, height |-> height]
        /\ tk_state' = t.state
        /\ state_before_windows_set_titlebar_color' = t.before
        /\ withdraw_called_before_window_exists' =
               IF NativeTitlebar /\ window_exists = FALSE
               THEN TRUE ELSE withdraw_called_before_window_exists
        /\ calls' = <<Call("super.resizable", 0, 0, NoStr)>> \o t.calls
        /\ lastOp' = Op("resizable", 0, 0, NoStr, FALSE)
        /\ UNCHANGED <<window_exists, iconify_called_before_window_exists,
                       appearance_mode, fg_color, tk_bg, platform_win,
                       deactivate_windows_window_header_manipulation,
                       appearance_registered, scaling_registered, destroyed,
                       hide_requested>>
        /\ UNCHANGED sizeVars

\* resizable(width, height)
Resizable(width, height, native) ==
    LET t == IF platform_win
             THEN WindowsSetTitlebarColor(ModeColor(appearance_mode), native)
             ELSE [state |-> tk_state,
                   before |-> state_before_windows_set_titlebar_color, calls |-> <<>>]
    IN  /\ ~destroyed
        /\ last_resizable_args' = [set |-> TRUE, width |-> width, height |-> height]
        /\ tk_state' = t.state
        /\ state_before_windows_set_titlebar_color' = t.before
        /\ calls' = <<Call("super.resizable", 0, 0, NoStr)>> \o t.calls
        /\ lastOp' = Op("resizable", 0, 0, NoStr, FALSE)
        /\ UNCHANGED <<window_exists, withdraw_called_before_window_exists,
                       iconify_called_before_window_exists,
                       appearance_mode, fg_color, tk_bg, platform_win,
                       deactivate_windows_window_header_manipulation,
                       appearance_registered, scaling_registered, destroyed,
                       hide_requested>>
        /\ UNCHANGED sizeVars

\* AppearanceModeTracker callback
SetAppearanceMode(mode_string, native) ==
    LET mode == CASE Lower(mode_string) = "dark" -> 1
                  [] Lower(mode_string) = "light" -> 0
                  [] OTHER -> appearance_mode
        t == IF platform_win
             THEN WindowsSetTitlebarColor(ModeColor(mode), native)
             ELSE [state |-> tk_state,
                   before |-> state_before_windows_set_titlebar_color, calls |-> <<>>]
    IN  /\ Delivers(appearance_registered)
        /\ appearance_mode' = mode
        /\ tk_state' = t.state
        /\ state_before_windows_set_titlebar_color' = t.before
        /\ tk_bg' = SingleColor(fg_color, mode)
        /\ calls' = t.calls \o <<Call("super.configure", 0, 0, <<tk_bg'>>)>>
        /\ lastOp' = Op("_set_appearance_mode", 0, 0, <<mode_string>>, FALSE)
        /\ UNCHANGED <<window_exists, withdraw_called_before_window_exists,
                       iconify_called_before_window_exists, last_resizable_args,
                       fg_color, platform_win,
                       deactivate_windows_window_header_manipulation,
                       appearance_registered, scaling_registered, destroyed,
                       hide_requested>>
        /\ UNCHANGED sizeVars

ConfigureFgColor_KeepsBackground(color) ==
    /\ ~destroyed
    /\ fg_color' = color
    /\ tk_bg' = SingleColor(fg_color, appearance_mode)
    /\ calls' = <<Call("super.configure", 0, 0, <<tk_bg'>>)>>
    /\ lastOp' = Op("configure", 0, 0, color, FALSE)
    /\ UNCHANGED <<window_exists, withdraw_called_before_window_exists,
                   iconify_called_before_window_exists,
                   state_before_windows_set_titlebar_color, last_resizable_args,
                   appearance_mode, tk_state, platform_win,
                   deactivate_windows_window_header_manipulation,
                   appearance_registered, scaling_registered, destroyed,
                   hide_requested>>
    /\ UNCHANGED sizeVars

\* configure(fg_color=color)
ConfigureFgColor(color) ==
    /\ ~destroyed
    /\ fg_color' = color
    /\ tk_bg' = SingleColor(color, appearance_mode)
    /\ calls' = <<Call("super.configure", 0, 0, <<tk_bg'>>)>>
    /\ lastOp' = Op("configure", 0, 0, color, FALSE)
    /\ UNCHANGED <<window_exists, withdraw_called_before_window_exists,
                   iconify_called_before_window_exists,
                   state_before_windows_set_titlebar_color, last_resizable_args,
                   appearance_mode, tk_state, platform_win,
                   deactivate_windows_window_header_manipulation,
                   appearance_registered, scaling_registered, destroyed,
                   hide_requested>>
    /\ UNCHANGED sizeVars

Destroy_KeepsScalingCallback ==
    /\ ~destroyed
    /\ appearance_registered' = Unsubscribe(appearance_registered)
    /\ scaling_registered' = scaling_registered
    /\ destroyed' = TRUE
    /\ calls' = <<Call("AppearanceModeTracker.remove", 0, 0, NoStr),
                  Call("ScalingTracker.remove_window", 0, 0, NoStr),
                  Call("_disable_macos_dark_title_bar", 0, 0, NoStr),
                  Call("super.destroy", 0, 0, NoStr)>>
    /\ lastOp' = Op("destroy", 0, 0, NoStr, FALSE)
    /\ UNCHANGED <<window_exists, withdraw_called_before_window_exists,
                   iconify_called_before_window_exists,
                   state_before_windows_set_titlebar_color, last_resizable_args,
                   appearance_mode, fg_color, tk_state, tk_bg, platform_win,
                   deactivate_windows_window_header_manipulation, hide_requested>>
    /\ UNCHANGED sizeVars

Destroy ==
    /\ ~destroyed
    /\ appearance_registered' = Unsubscribe(appearance_registered)
    /\ scaling_registered' = Unsubscribe(scaling_registered)
    /\ destroyed' = TRUE
    /\ calls' = <<Call("AppearanceModeTracker.remove", 0, 0, NoStr),
                  Call("ScalingTracker.remove_window", 0, 0, NoStr),
                  Call("_disable_macos_dark_title_bar", 0, 0, NoStr),
                  Call("super.destroy", 0, 0, NoStr)>>
    /\ lastOp' = Op("destroy", 0, 0, NoStr, FALSE)
    /\ UNCHANGED <<window_exists, withdraw_called_before_window_exists,
                   iconify_called_before_window_exists,
                   state_before_windows_set_titlebar_color, last_resizable_args,
                   appearance_mode, fg_color, tk_state, tk_bg, platform_win,
                   deactivate_windows_window_header_manipulation, hide_requested>>
    /\ UNCHANGED sizeVars

(* --------------------------- specifications ---------------------------- *)

NextSize ==
    \/ \E a \in SizeArgs : Minsize(a[1], a[2])
    \/ \E a \in SizeArgs : Maxsize(a[1], a[2])
    \/ \E s \in GeometryStrings : Geometry(s)
    \/ \E d \in DetectedSizes : UpdateDimensionsEvent(d[1], d[2])
    \/ \E sc \in Scalings : SetScaling(sc)
    \/ FireTimer
    \/ Tick

NextLife ==
    \/ Withdraw
    \/ Iconify
    \/ Update
    \/ Mainloop
    \/ \E s \in TkStates : State(s)
    \/ \E a \in ResizableArgs, n \in NativeOutcomes : Resizable(a[1], a[2], n)
    \/ \E m \in ModeStrings, n \in NativeOutcomes : SetAppearanceMode(m, n)

Next ==
    \/ NextSize
    \/ NextLife
    \/ \E c \in FgColors : ConfigureFgColor(c)
    \/ Destroy

Spec == Init /\ [][Next]_vars

\* the constructed window on Windows with the default theme, light mode
InitWindows ==
    /\ Init
    /\ platform_win
    /\ ~deactivate_windows_window_header_manipulation
    /\ appearance_mode = 0
    /\ fg_color = <<"gray92", "gray14">>

\* sizes, scaling and the deferred callbacks
SpecSize == InitWindows /\ [][NextSize]_vars

\* realization, wm state and the titlebar colour
SpecLife == Init /\ [][NextLife]_vars

\* scaling changes, their deferred callbacks and resize notifications
NextScaling ==
    \/ \E sc \in Scalings : SetScaling(sc)
    \/ \E d \in DetectedSizes : UpdateDimensionsEvent(d[1], d[2])
    \/ FireTimer
    \/ Tick

\* the event loop runs every timer handler that is due and time passes
SpecScalingFair ==
    InitWindows /\ [][NextScaling]_vars /\ WF_vars(FireTimer) /\ WF_vars(Tick)

\* notifications, realization and destruction
NextTeardown ==
    \/ Update
    \/ \E m \in ModeStrings, n \in NativeOutcomes : SetAppearanceMode(m, n)
    \/ \E sc \in Scalings : SetScaling(sc)
    \/ FireTimer
    \/ Tick
    \/ Destroy

SpecTeardown == Init /\ [][NextTeardown]_vars

\* the logical bounds, resize notifications and scale changes
NextBounds ==
    \/ \E a \in SizeArgs : Minsize(a[1], a[2])
    \/ \E a \in SizeArgs : Maxsize(a[1], a[2])
    \/ \E d \in DetectedSizes : UpdateDimensionsEvent(d[1], d[2])
    \/ \E sc \in Scalings : SetScaling(sc)
    \/ FireTimer
    \/ Tick

SpecBounds == InitWindows /\ [][NextBounds]_vars

\* the window constructed at any of the scaling factors
InitGeometry ==
    /\ \E sc \in GeometryScalings : InitSizeAt(sc)
    /\ InitLife
    /\ platform_win
    /\ ~deactivate_windows_window_header_manipulation
    /\ appearance_mode = 0
    /\ fg_color = <<"gray92", "gray14">>
    /\ lastOp = Op("__init__", 0, 0, NoStr, FALSE)
    /\ calls = <<>>

\* geometry(geometry_string) and geometry()
NextGeometry ==
    \/ \E s \in GeometryInputs : Geometry(s)
    \/ GeometryGet

SpecGeometry == InitGeometry /\ [][NextGeometry]_vars

\* appearance-mode notifications and configure(fg_color=...), before and
\* after the window is realized, hidden or shown
NextAppearance ==
    \/ \E m \in ModeStrings, n \in NativeOutcomes : SetAppearanceMode(m, n)
    \/ \E c \in FgColors : ConfigureFgColor(c)
    \/ Update
    \/ Iconify

SpecAppearance == Init /\ [][NextAppearance]_vars

\* scale changes, their deferred callbacks and resize notifications, those
\* that report the size tkinter was last asked for included
NextEcho ==
    \/ \E sc \in Scalings : SetScaling(sc)
    \/ \E d \in DetectedSizes : UpdateDimensionsEvent(d[1], d[2])
    \/ UpdateDimensionsEcho
    \/ FireTimer
    \/ Tick

SpecEcho == InitWindows /\ [][NextEcho]_vars

(* ------------------------------ properties ----------------------------- *)

\* the operations that set the titlebar colour
TitlebarOps == {"_set_appearance_mode", "resizable"}

HasCall(f) == \E i \in 1..Len(calls) : calls[i].f = f

\* p is value * sc truncated to an integer
IsScaled(p, value, sc) ==
    /\ p * sc[2] <= value * sc[1]
    /\ value * sc[1] < (p + 1) * sc[2]

\* l is a nearest integer to physical / sc
IsUnscaled(l, physical, sc) == 2 * Abs(l * sc[1] - physical * sc[2]) <= sc[1]

\* the parsed geometry string g holds the size w x h and no position
IsSizeOnly(g, w, h) == g.hasSize /\ ~g.hasPos /\ g.width = w /\ g.height = h

\* C1: after every operation the stored logical size lies within the stored
\* logical bounds: min <= current <= max for width and for height
C1_CurrentWithinBounds ==
    /\ min_width <= current_width
    /\ current_width <= max_width
    /\ min_height <= current_height
    /\ current_height <= max_height

\* the call f with string argument s is among cs
InCalls(cs, f, s) == \E i \in 1..Len(cs) : cs[i].f = f /\ cs[i].s = s

\* C2: setting the titlebar colour on a realized window on the native
\* platform leaves the wm state the window had before the call: normal is
\* restored by deiconify, iconic by iconify, zoomed and withdrawn by
\* setting that state again
C2_TitlebarColorKeepsState ==
    [][(NativeTitlebar /\ window_exists /\ lastOp'.name \in TitlebarOps)
          => /\ tk_state' = tk_state
             /\ tk_state = "normal" => InCalls(calls', "deiconify", NoStr)
             /\ tk_state = "iconic" => InCalls(calls', "iconify", NoStr)
             /\ tk_state = "zoomed" => InCalls(calls', "state", <<"zoomed">>)
             /\ tk_state = "withdrawn" => InCalls(calls', "state", <<"withdrawn">>)]_vars

C2_Witness ==
    /\ NativeTitlebar
    /\ window_exists
    /\ lastOp.name = "_set_appearance_mode"
    /\ state_before_windows_set_titlebar_color = "zoomed"
    /\ tk_state = "zoomed"
    /\ HasCall("DwmSetWindowAttribute")

\* C3: setting the titlebar colour on a realized window whose state is
\* iconic or withdrawn issues no hide (withdraw) and no show (deiconify)
\* call, and an iconic window is left iconic
C3_NoHideWhenIconicOrWithdrawn ==
    (/\ NativeTitlebar
     /\ window_exists
     /\ lastOp.name \in TitlebarOps
     /\ state_before_windows_set_titlebar_color \in {"iconic", "withdrawn"})
        => /\ ~HasCall("super.withdraw")
           /\ ~HasCall("deiconify")
           /\ tk_state = state_before_windows_set_titlebar_color

\* C4: a scale change sets the suppression flag, then calls minsize,
\* maxsize and geometry of the base class in that order, all three with the
\* current logical size multiplied by the new scale (as integer pixels)
C4_ScaleChangeForcesCurrentSize ==
    lastOp.name = "_set_scaling" =>
        /\ block_update_dimensions_event
        /\ window_scaling = <<lastOp.w, lastOp.h>>
        /\ Len(calls) = 4
        /\ calls[1].f = "block_update_dimensions_event=True"
        /\ calls[2].f = "minsize"
        /\ calls[3].f = "maxsize"
        /\ calls[4].f = "geometry"
        /\ IsScaled(calls[2].w, current_width, window_scaling)
        /\ IsScaled(calls[2].h, current_height, window_scaling)
        /\ calls[3].w = calls[2].w
        /\ calls[3].h = calls[2].h
        /\ IsSizeOnly(ParseGeometryString(calls[4].s), calls[2].w, calls[2].h)

C4_Witness ==
    /\ lastOp.name = "_set_scaling"
    /\ window_scaling = <<2, 1>>
    /\ current_width = 600
    /\ current_height = 500
    /\ min_width = 200
    /\ calls[2].w = 1200
    /\ calls[2].h = 1000

\* C5: once no deferred callback is pending, the physical bounds last
\* given to the base class are the stored logical bounds scaled by the
\* current scale factor
C5_BoundsReappliedAfterCallbacks ==
    timers = <<>> =>
        /\ tk_minsize.set =>
              /\ IsScaled(tk_minsize.w, min_width, window_scaling)
              /\ IsScaled(tk_minsize.h, min_height, window_scaling)
        /\ tk_maxsize.set =>
              /\ IsScaled(tk_maxsize.w, max_width, window_scaling)
              /\ IsScaled(tk_maxsize.h, max_height, window_scaling)

C5_Witness ==
    /\ timers = <<>>
    /\ lastOp.name = "_set_scaled_min_max"
    /\ window_scaling = <<2, 1>>
    /\ min_width = 200
    /\ max_width = 700
    /\ current_width = 249
    /\ tk_minsize = Given(400, 400)
    /\ tk_maxsize = Given(1400, 1400)

\* C6: a resize notification changes nothing while the suppression flag is
\* set; while it is clear it sets the logical size to the rounded quotient
\* of the physical size by the scale and changes nothing else
C6_ResizeNotificationFrame ==
    [][lastOp'.name = "_update_dimensions_event" =>
          /\ UNCHANGED <<min_width, min_height, max_width, max_height,
                         window_scaling, block_update_dimensions_event, timers,
                         tk_minsize, tk_maxsize, tk_geometry, lifeVars>>
          /\ IF block_update_dimensions_event
             THEN UNCHANGED <<current_width, current_height>>
             ELSE /\ IsUnscaled(current_width', lastOp'.w, window_scaling)
                  /\ IsUnscaled(current_height', lastOp'.h, window_scaling)]_vars

C6_Witness ==
    /\ lastOp.name = "_update_dimensions_event"
    /\ ~block_update_dimensions_event
    /\ window_scaling = <<5, 4>>
    /\ lastOp.w = 249
    /\ lastOp.h = 627
    /\ current_width = 199
    /\ current_height = 502

\* C7: with the event loop running its timers, a set suppression flag is
\* eventually cleared, and only a scale change sets it
C7_SuppressionReleased ==
    /\ block_update_dimensions_event ~> ~block_update_dimensions_event
    /\ [][(~block_update_dimensions_event /\ block_update_dimensions_event')
             => lastOp'.name = "_set_scaling"]_vars

C7_Witness ==
    /\ lastOp.name = "set_block_update_dimensions_event_false"
    /\ ~block_update_dimensions_event
    /\ window_scaling = <<2, 1>>
    /\ timers # <<>>

\* C8: the window starts not realized, becomes realized on the first
\* update() or mainloop() and through nothing else, never becomes
\* unrealized again, and the deiconify of the first show runs only then
C8_RealizedOnce ==
    /\ ~window_exists
    /\ [][/\ (window_exists' # window_exists) =>
                (window_exists' /\ lastOp'.name \in {"update", "mainloop"})
          /\ (lastOp'.name \in {"update", "mainloop"}) => window_exists'
          /\ (lastOp'.name \in {"update", "mainloop"} /\ calls'[1].f = "deiconify")
                => ~window_exists]_vars

C8_Witness ==
    /\ window_exists
    /\ lastOp.name = "update"
    /\ calls[1].f = "deiconify"
    /\ tk_state = "normal"

\* C9: on Windows the first update() or mainloop() deiconifies the window
\* exactly if the caller called neither withdraw() nor iconify() before;
\* withdraw() and iconify() on a realized window set neither flag
C9_DeiconifyUnlessHidden ==
    [][/\ (platform_win /\ ~window_exists /\ lastOp'.name \in {"update", "mainloop"})
            => ((calls'[1].f = "deiconify") <=> ~hide_requested)
       /\ (window_exists /\ lastOp'.name \in {"withdraw", "iconify"})
            => UNCHANGED <<withdraw_called_before_window_exists,
                           iconify_called_before_window_exists>>]_vars

C9_Witness ==
    /\ platform_win
    /\ window_exists
    /\ lastOp.name = "mainloop"
    /\ hide_requested
    /\ iconify_called_before_window_exists
    /\ ~withdraw_called_before_window_exists
    /\ tk_state = "iconic"

\* index of the first call named f in the calls of the last operation
CallIndex(f) == CHOOSE i \in 1..Len(calls) : calls[i].f = f

\* C10: construction registers both callbacks; destroy() deregisters both
\* before the base class teardown, after it neither tracker holds a
\* callback of the window and no notification is delivered to it
C10_CallbacksDeregistered ==
    /\ lastOp.name = "__init__" => (appearance_registered /\ scaling_registered)
    /\ destroyed => (~appearance_registered /\ ~scaling_registered)
    /\ lastOp.name = "destroy" =>
          /\ HasCall("AppearanceModeTracker.remove")
          /\ HasCall("ScalingTracker.remove_window")
          /\ HasCall("super.destroy")
          /\ CallIndex("AppearanceModeTracker.remove") < CallIndex("super.destroy")
          /\ CallIndex("ScalingTracker.remove_window") < CallIndex("super.destroy")
    /\ lastOp.name \in {"_set_appearance_mode", "_set_scaling"} => ~destroyed

C10_Witness ==
    /\ destroyed
    /\ lastOp.name = "destroy"
    /\ window_exists
    /\ timers # <<>>

\* C11: minsize(w, h) stores (w, h) as the logical minimum, raises each
\* current dimension below it up to it and leaves the others, and gives the
\* base class the minimum scaled by the window scale (as integer pixels);
\* maxsize(w, h) does the same downwards with the maximum
C11_MinsizeMaxsizeClamp ==
    [][/\ lastOp'.name = "minsize" =>
            /\ min_width' = lastOp'.w
            /\ min_height' = lastOp'.h
            /\ current_width' = Max2(current_width, lastOp'.w)
            /\ current_height' = Max2(current_height, lastOp'.h)
            /\ tk_minsize'.set
            /\ IsScaled(tk_minsize'.w, lastOp'.w, window_scaling)
            /\ IsScaled(tk_minsize'.h, lastOp'.h, window_scaling)
            /\ calls' = <<Call("minsize", tk_minsize'.w, tk_minsize'.h, NoStr)>>
            /\ UNCHANGED <<max_width, max_height, tk_maxsize, window_scaling>>
       /\ lastOp'.name = "maxsize" =>
            /\ max_width' = lastOp'.w
            /\ max_height' = lastOp'.h
            /\ current_width' = Min2(current_width, lastOp'.w)
            /\ current_height' = Min2(current_height, lastOp'.h)
            /\ tk_maxsize'.set
            /\ IsScaled(tk_maxsize'.w, lastOp'.w, window_scaling)
            /\ IsScaled(tk_maxsize'.h, lastOp'.h, window_scaling)
            /\ calls' = <<Call("maxsize", tk_maxsize'.w, tk_maxsize'.h, NoStr)>>
            /\ UNCHANGED <<min_width, min_height, tk_minsize, window_scaling>>]_vars

\* minsize(200, 200) at scale 1.25 on a 199x502 window: the width is
\* raised to 200, the height is left, the base class is given 250x250
C11_Witness ==
    /\ lastOp = Op("minsize", 200, 200, NoStr, FALSE)
    /\ window_scaling = <<5, 4>>
    /\ current_width = 200
    /\ current_height = 502
    /\ min_width = 200
    /\ min_height = 200
    /\ tk_minsize = Given(250, 250)

\* s holds only a position: a sign, digits, a sign, digits
SignedPosition(s) ==
    /\ CharAt(s, 1) \in {"+", "-"}
    /\ DigitRun(s, 2) >= 1
    /\ CharAt(s, DigitRun(s, 2) + 2) \in {"+", "-"}
    /\ DigitRun(s, DigitRun(s, 2) + 3) >= 1
    /\ DigitRun(s, 2) + 2 + DigitRun(s, DigitRun(s, 2) + 3) = Len(s)

\* C12: geometry() given a string that holds only a position, each offset
\* written with a '+' or a '-' sign, gives the base class a string equal
\* to its argument, at every scale factor
C12_PositionOnlyUnchanged ==
    (lastOp.name = "geometry" /\ SignedPosition(lastOp.s))
        => (~lastOp.raised /\ tk_geometry = lastOp.s)

\* the size the string returned by the last geometry() holds
ReturnedSize == ParseGeometryString(calls[2].s)

\* w and h each differ by at most 1 from the stored logical size
WithinOne(w, h) == Abs(w - current_width) <= 1 /\ Abs(h - current_height) <= 1

C14_UnparseableIsNoOp ==
    [][(lastOp'.name = "geometry" /\ GeometryRaises(lastOp'.s))
          => /\ ~lastOp'.raised
             /\ UNCHANGED <<sizeVars, lifeVars>>]_vars

\* the last operation's native titlebar call failed: an exception was
\* caught and printed, or the legacy attribute identifier was rejected too
NativeCallFailed(cs) ==
    \/ InCalls(cs, "print", NoStr)
    \/ InCalls(cs, "DwmSetWindowAttribute", <<"rejected">>)

\* C15: when the native titlebar call fails, setting the titlebar colour
\* raises nothing and still restores the window: a realized window ends in
\* the wm state it had before the call, through the same restore call as
\* in the successful case
C15_NativeFailureStillRestores ==
    [][(/\ NativeTitlebar
        /\ window_exists
        /\ lastOp'.name \in TitlebarOps
        /\ NativeCallFailed(calls'))
          => /\ ~lastOp'.raised
             /\ tk_state' = tk_state
             /\ state_before_windows_set_titlebar_color' = tk_state
             /\ calls'[Len(calls')].f \notin {"print", "DwmSetWindowAttribute"}
             /\ tk_state = "normal" => InCalls(calls', "deiconify", NoStr)
             /\ tk_state = "iconic" => InCalls(calls', "iconify", NoStr)
             /\ tk_state = "zoomed" => InCalls(calls', "state", <<"zoomed">>)]_vars

\* resizable() on a realized, normal window whose handle lookup raises
C15_Witness ==
    /\ NativeTitlebar
    /\ window_exists
    /\ lastOp.name = "resizable"
    /\ InCalls(calls, "GetParent", <<"raises">>)
    /\ HasCall("print")
    /\ calls[Len(calls)].f = "deiconify"
    /\ state_before_windows_set_titlebar_color = "normal"
    /\ tk_state = "normal"

\* every DwmSetWindowAttribute call among cs passes value
AttributeValueIs(cs, value) ==
    \A i \in 1..Len(cs) : cs[i].f = "DwmSetWindowAttribute" => cs[i].h = value

\* C16: the background last given to the base class is the colour resolved
\* for the stored fg_color and the stored appearance mode; where the window
\* manipulates the native titlebar, an appearance-mode notification also
\* sets the titlebar colour again, for the stored mode, before it configures
\* the background
C16_BackgroundFollowsModeAndColor ==
    /\ tk_bg = SingleColor(fg_color, appearance_mode)
    /\ lastOp.name \in {"_set_appearance_mode", "configure"} =>
          /\ calls # <<>>
          /\ calls[Len(calls)] = Call("super.configure", 0, 0, <<tk_bg>>)
    /\ (NativeTitlebar /\ lastOp.name = "_set_appearance_mode") =>
          /\ appearance_mode = (IF Lower(lastOp.s[1]) = "dark" THEN 1 ELSE 0)
          /\ HasCall("GetParent")
          /\ HasCall("DwmSetWindowAttribute") \/ HasCall("print")
          /\ AttributeValueIs(calls, appearance_mode)

\* a "Dark" notification after configure(fg_color=("gray92", "gray14")) on
\* a window constructed in light mode with a single colour
C16_Witness ==
    /\ NativeTitlebar
    /\ lastOp.name = "_set_appearance_mode"
    /\ appearance_mode = 1
    /\ fg_color = <<"gray92", "gray14">>
    /\ tk_bg = "gray14"
    /\ window_exists
    /\ calls[Len(calls) - 1].f = "deiconify"
    /\ InCalls(calls, "DwmSetWindowAttribute", NoStr)

\* a release callback is pending; release callbacks run in the order of
\* the scale changes that scheduled them, so the latest scale change's own
\* release callback has not run yet
ReleasePending ==
    \E i \in 1..Len(timers) : timers[i].cb = "set_block_update_dimensions_event_false"

\* the resize notification of this step reports the size of the geometry
\* string tkinter was last given
IsEchoStep ==
    /\ lastOp'.name = "_update_dimensions_event"
    /\ tk_geometry = SizeStr(lastOp'.w, lastOp'.h)

\* C17: the suppression flag stays set until the release callback of the
\* latest scale change has run, so a resize notification that reports the
\* size forced by that scale change and arrives before that release leaves
\* the stored logical size unchanged
C17_SuppressedUntilOwnRelease ==
    [][/\ ReleasePending => block_update_dimensions_event
       /\ (IsEchoStep /\ ReleasePending) =>
             UNCHANGED <<current_width, current_height>>]_vars

\* C20: a resize notification that arrives after the release and reports
\* exactly the size the scale change forced (the current logical size times
\* the scale, as _set_scaling computes it) leaves the stored logical size
\* unchanged
C20_SizeStableAcrossScaleChange ==
    [][(/\ IsEchoStep
        /\ ~block_update_dimensions_event
        /\ window_scaling # <<1, 1>>
        /\ <<lastOp'.w, lastOp'.h>> = ForcedSize(window_scaling))
          => UNCHANGED <<current_width, current_height>>]_vars

\* the stored logical size and bounds
logicalVars == <<current_width, current_height, min_width, min_height,
                 max_width, max_height>>

\* C18: a scale change and its two deferred callbacks leave the stored
\* logical size and the stored logical bounds as they are; the scale change
\* sets the scale factor, the flag and the physical values given to the
\* base class, the bound callback only the physical bounds, the release
\* callback only the flag
C18_ScaleChangeKeepsLogicalValues ==
    [][/\ lastOp'.name = "_set_scaling" =>
            /\ UNCHANGED <<logicalVars, lifeVars>>
            /\ window_scaling' = <<lastOp'.w, lastOp'.h>>
       /\ lastOp'.name = "_set_scaled_min_max" =>
            /\ UNCHANGED <<logicalVars, lifeVars>>
            /\ UNCHANGED <<window_scaling, block_update_dimensions_event, tk_geometry>>
            /\ tk_minsize' = Given(ApplyWindowScaling(min_width, window_scaling),
                                   ApplyWindowScaling(min_height, window_scaling))
            /\ tk_maxsize' = Given(ApplyWindowScaling(max_width, window_scaling),
                                   ApplyWindowScaling(max_height, window_scaling))
       /\ lastOp'.name = "set_block_update_dimensions_event_false" =>
            /\ UNCHANGED <<logicalVars, lifeVars>>
            /\ UNCHANGED <<window_scaling, tk_minsize, tk_maxsize, tk_geometry>>]_vars

\* the bound callback of a change to 1.25 on a 199x502 window with bounds
\* 200x200 and 700x700: the bounds stay logical, the base class gets them
\* scaled
C18_Witness ==
    /\ lastOp.name = "_set_scaled_min_max"
    /\ window_scaling = <<5, 4>>
    /\ current_width = 199
    /\ current_height = 502
    /\ min_width = 200
    /\ max_width = 700
    /\ tk_minsize = Given(250, 250)
    /\ tk_maxsize = Given(875, 875)
    /\ tk_geometry = SizeStr(248, 627)

\* C19: the hide and the display pass that setting the titlebar colour
\* performs on a window not yet realized are not recorded as a hide by the
\* caller and do not realize the window: after construction and after such
\* a colour change both flags and window_exists are as before, and the
\* first update() or mainloop() on Windows still deiconifies the window
\* unless the caller called withdraw() or iconify()
C19_ControllerHideNotRecorded ==
    /\ ~window_exists
    /\ ~withdraw_called_before_window_exists
    /\ ~iconify_called_before_window_exists
    /\ NativeTitlebar => tk_state = "withdrawn"
    /\ [][/\ (~window_exists /\ lastOp'.name \in TitlebarOps) =>
               /\ UNCHANGED <<window_exists, withdraw_called_before_window_exists,
                              iconify_called_before_window_exists>>
               /\ NativeTitlebar =>
                     /\ InCalls(calls', "super.withdraw", NoStr)
                     /\ InCalls(calls', "super.update", NoStr)
                     /\ tk_state' = "withdrawn"
          /\ (/\ platform_win
              /\ ~window_exists
              /\ ~hide_requested
              /\ lastOp'.name \in {"update", "mainloop"}) =>
               /\ calls'[1].f = "deiconify"
               /\ tk_state' = "normal"]_vars

\* the update() that shows a dark-mode window on which resizable() set the
\* titlebar colour before the window was realized
C19_Witness ==
    /\ NativeTitlebar
    /\ window_exists
    /\ lastOp.name = "update"
    /\ calls[1].f = "deiconify"
    /\ last_resizable_args.set
    /\ appearance_mode = 1
    /\ tk_bg = "gray14"
    /\ state_before_windows_set_titlebar_color = "None"
    /\ ~hide_requested
    /\ tk_state = "normal"

====
